---- MODULE Spec2Model ----
(***************************************************************************)
(* Points / level / participation / achievement bookkeeping of the MCE     *)
(* student portal backend.  The document store holds three collections     *)
(* (users, events, achievements); every request handler is one action.     *)
(***************************************************************************)
EXTENDS Integers, Sequences, FiniteSets, TLC

\* ---------------------------------------------------------------- bounds
MaxUsers == 2
MaxEvents == 2
MaxAchievements == 2
\* number of requests handled in one run
MaxRequests == 5

\* ------------------------------------------------------ program constants
\* Math.floor(this.totalPoints / 200) + 1
LevelStep == 200
\* maxParticipants default null ("unlimited"); null and 0 are both falsy in
\* canParticipate, so one value stands for "unset"
NoLimit == 0

\* ------------------------------------------------------------ input sets
\* points of an event (validated 1..1000)
EventPointsChoices == {100, 200}
\* maxParticipants of an event (optional, validated >= 1)
MaxParticipantsChoices == {NoLimit, 1}
\* status values an admin update may store
StatusChoices == {"upcoming", "ongoing", "completed", "cancelled"}
\* date of an event, in clock ticks (validated: not in the past)
DateChoices == {1}
\* body.points of the administrative award (not validated by the route)
AwardPointsChoices == {0, 150, -100}
\* requirement descriptors and rewards an admin may create
AchievementTemplates ==
  { [type |-> "events", value |-> 1,   points |-> 50],
    [type |-> "points", value |-> 150, points |-> 100] }

\* inputs of the eligibility evaluator: requirement kinds of the schema enum,
\* thresholds, and users around the thresholds
RequirementTypes == {"points", "events", "streak", "custom"}
RequirementValues == {1, 2, 150}
EligibilityPoints == {0, 100, 149, 150, 300}
EligibilityEventCounts == {0, 1, 2}

UserIds == 1..MaxUsers
EventIds == 1..MaxEvents
AchievementIds == 1..MaxAchievements

VARIABLES users, events, achievements, now, last, joined, requests, inflight

vars ==
  <<users, events, achievements, now, last, joined, requests, inflight>>

\* ------------------------------------------------------------ documents
NewUser ==
  [totalPoints |-> 0, level |-> 1, achievements |-> <<>>,
   eventsParticipated |-> <<>>, isActive |-> TRUE]

NoSnapshot ==
  [has |-> FALSE, totalPoints |-> 0, level |-> 0,
   eventsParticipated |-> <<>>, participants |-> <<>>, repriced |-> FALSE]

Snapshot(user, ev) ==
  [has |-> TRUE, totalPoints |-> user.totalPoints, level |-> user.level,
   eventsParticipated |-> user.eventsParticipated,
   participants |-> ev.participants, repriced |-> FALSE]

\* the request that was handled last, its outcome, and (for a successful
\* Join) the values the Join found; repriced marks a snapshot that an admin
\* update of the event's points has followed
Request(op, u, e, v, ok, awarded, pre) ==
  [op |-> op, u |-> u, e |-> e, v |-> v, ok |-> ok, awarded |-> awarded,
   pre |-> pre]

UserExists(u) == u \in 1..Len(users)
EventExists(e) == e \in 1..Len(events)

\* what a handler leaves in the store and answers
Outcome(ok, usrs, evs, awarded) ==
  [ok |-> ok, users |-> usrs, events |-> evs, awarded |-> awarded]

\* --------------------------------------------------------- model helpers
RECURSIVE SumSeq(_, _)
SumSeq(s, i) == IF i > Len(s) THEN 0 ELSE s[i] + SumSeq(s, i + 1)

\* ------------------------------------------------------------ User model
calculateLevel_noOffset(user) == user.totalPoints \div LevelStep

calculateLevel(user) == (user.totalPoints \div LevelStep) + 1

\* ----------------------------------------------------------- Event model
preSave(ev) ==
  IF ev.status = "upcoming" /\ ev.date <= now
  THEN [ev EXCEPT !.status = "completed"]
  ELSE ev

isParticipating(ev, userId) ==
  \E i \in 1..Len(ev.participants) : ev.participants[i].userId = userId

canParticipate_noDuplicateCheck(ev, userId) ==
  IF ~ev.isActive \/ ev.status = "completed" \/ ev.status = "cancelled"
  THEN FALSE
  ELSE IF ev.maxParticipants # NoLimit
          /\ Len(ev.participants) >= ev.maxParticipants
  THEN FALSE
  ELSE TRUE

canParticipate_noStatusCheck(ev, userId) ==
  IF ~ev.isActive
  THEN FALSE
  ELSE IF isParticipating(ev, userId)
  THEN FALSE
  ELSE IF ev.maxParticipants # NoLimit
          /\ Len(ev.participants) >= ev.maxParticipants
  THEN FALSE
  ELSE TRUE

canParticipate(ev, userId) ==
  IF ~ev.isActive \/ ev.status = "completed" \/ ev.status = "cancelled"
  THEN FALSE
  ELSE IF isParticipating(ev, userId)
  THEN FALSE
  ELSE IF ev.maxParticipants # NoLimit
          /\ Len(ev.participants) >= ev.maxParticipants
  THEN FALSE
  ELSE TRUE

\* ----------------------------------------------------- Achievement model
checkEligibility_strict(ach, user) ==
  IF ~ach.isActive THEN FALSE
  ELSE IF ach.type = "points" THEN user.totalPoints > ach.value
  ELSE IF ach.type = "events" THEN Len(user.eventsParticipated) > ach.value
  ELSE FALSE

checkEligibility(ach, user) ==
  IF ~ach.isActive THEN FALSE
  ELSE IF ach.type = "points" THEN user.totalPoints >= ach.value
  ELSE IF ach.type = "events" THEN Len(user.eventsParticipated) >= ach.value
  ELSE FALSE

hasAchievement(user, aid) ==
  \E i \in 1..Len(user.achievements) :
     user.achievements[i].achievementId = aid

\* ------------------------------------------------- participation updates
\* participateInEvent, lines 369-375: push the participant, save the event
joinEvent(ev, userId) ==
  preSave([ev EXCEPT !.participants =
             Append(@, [userId |-> userId, pointsEarned |-> ev.points])])

\* participateInEvent, lines 377-386: the user document
joinUser_noPoints(user, ev, eventId) ==
  [user EXCEPT
     !.eventsParticipated =
        Append(@, [eventId |-> eventId, pointsEarned |-> ev.points])]

joinUser(user, ev, eventId) ==
  LET u1 == [user EXCEPT !.totalPoints = @ + ev.points]
      u2 == [u1 EXCEPT !.level = calculateLevel(u1)]
  IN [u2 EXCEPT
        !.eventsParticipated =
           Append(@, [eventId |-> eventId, pointsEarned |-> ev.points])]

\* removeParticipation, lines 406-408: findIndex (0 when absent)
participationIndex_activeOnly(ev, userId) ==
  IF ev.isActive /\ ev.status \in {"upcoming", "ongoing"}
     /\ isParticipating(ev, userId)
  THEN CHOOSE i \in 1..Len(ev.participants) :
         /\ ev.participants[i].userId = userId
         /\ \A j \in 1..(i - 1) : ev.participants[j].userId # userId
  ELSE 0

participationIndex(ev, userId) ==
  IF isParticipating(ev, userId)
  THEN CHOOSE i \in 1..Len(ev.participants) :
         /\ ev.participants[i].userId = userId
         /\ \A j \in 1..(i - 1) : ev.participants[j].userId # userId
  ELSE 0

\* removeParticipation, lines 416-418: splice and save the event
leaveEvent(ev, idx) ==
  preSave([ev EXCEPT !.participants =
             SubSeq(@, 1, idx - 1) \o SubSeq(@, idx + 1, Len(@))])

\* removeParticipation, lines 421-429: the user document
leaveUser_keepsRecord(user, participation, eventId) ==
  LET u1 == [user EXCEPT !.totalPoints = @ - participation.pointsEarned]
  IN [u1 EXCEPT !.level = calculateLevel(u1)]

leaveUser_currentPoints(user, participation, eventId) ==
  LET u1 == [user EXCEPT !.totalPoints = @ - events[eventId].points]
      u2 == [u1 EXCEPT !.level = calculateLevel(u1)]
      Other(r) == r.eventId # eventId
  IN [u2 EXCEPT !.eventsParticipated = SelectSeq(@, Other)]

leaveUser_revokesAchievements(user, participation, eventId) ==
  LET u1 == [user EXCEPT !.totalPoints = @ - participation.pointsEarned,
                         !.achievements = <<>>]
      u2 == [u1 EXCEPT !.level = calculateLevel(u1)]
      Other(r) == r.eventId # eventId
  IN [u2 EXCEPT !.eventsParticipated = SelectSeq(@, Other)]

leaveUser(user, participation, eventId) ==
  LET u1 == [user EXCEPT !.totalPoints = @ - participation.pointsEarned]
      u2 == [u1 EXCEPT !.level = calculateLevel(u1)]
      Other(r) == r.eventId # eventId
  IN [u2 EXCEPT !.eventsParticipated = SelectSeq(@, Other)]

\* awardPointsForEvent, lines 468-474
awardEvent_eventPoints(ev, userId, points) ==
  preSave([ev EXCEPT !.participants =
             Append(@, [userId |-> userId, pointsEarned |-> ev.points])])

awardEvent(ev, userId, points) ==
  preSave([ev EXCEPT !.participants =
             Append(@, [userId |-> userId, pointsEarned |-> points])])

\* awardPointsForEvent, lines 476-484
awardUser(user, ev, eventId, points) ==
  LET u1 == [user EXCEPT !.totalPoints = @ + points]
      u2 == [u1 EXCEPT !.level = calculateLevel(u1)]
  IN [u2 EXCEPT
        !.eventsParticipated =
           Append(@, [eventId |-> eventId, pointsEarned |-> points])]

\* ------------------------------------------------------ achievement sweeps
\* One iteration of the loop of checkUserAchievements (lines 194-215) over
\* the result of Achievement.find({isActive: true}); acc = [user, awarded]
checkStep_noHasCheck(acc, achs, i) ==
  IF achs[i].isActive /\ checkEligibility(achs[i], acc.user)
  THEN LET u1 == [acc.user EXCEPT
                    !.achievements =
                       Append(@, [achievementId |-> i,
                                  points |-> achs[i].points]),
                    !.totalPoints = @ + achs[i].points]
       IN [user |-> [u1 EXCEPT !.level = calculateLevel(u1)],
           awarded |-> Append(acc.awarded, i)]
  ELSE acc

checkStep_noPoints(acc, achs, i) ==
  IF achs[i].isActive
     /\ ~hasAchievement(acc.user, i)
     /\ checkEligibility(achs[i], acc.user)
  THEN [user |-> [acc.user EXCEPT
                    !.achievements =
                       Append(@, [achievementId |-> i,
                                  points |-> achs[i].points])],
        awarded |-> Append(acc.awarded, i)]
  ELSE acc

checkStep_eventsOnly(acc, achs, i) ==
  IF achs[i].isActive
     /\ ~hasAchievement(acc.user, i)
     /\ achs[i].type = "events"
     /\ checkEligibility(achs[i], acc.user)
  THEN LET u1 == [acc.user EXCEPT
                    !.achievements =
                       Append(@, [achievementId |-> i,
                                  points |-> achs[i].points]),
                    !.totalPoints = @ + achs[i].points]
       IN [user |-> [u1 EXCEPT !.level = calculateLevel(u1)],
           awarded |-> Append(acc.awarded, i)]
  ELSE acc

checkStep(acc, achs, i) ==
  IF achs[i].isActive
     /\ ~hasAchievement(acc.user, i)
     /\ checkEligibility(achs[i], acc.user)
  THEN LET u1 == [acc.user EXCEPT
                    !.achievements =
                       Append(@, [achievementId |-> i,
                                  points |-> achs[i].points]),
                    !.totalPoints = @ + achs[i].points]
       IN [user |-> [u1 EXCEPT !.level = calculateLevel(u1)],
           awarded |-> Append(acc.awarded, i)]
  ELSE acc

RECURSIVE checkLoop(_, _, _)
checkLoop(acc, achs, i) ==
  IF i > Len(achs) THEN acc
  ELSE checkLoop(checkStep(acc, achs, i), achs, i + 1)

\* checkUserAchievements, lines 189-219, on the loaded user document
checkSweep(user, achs) == checkLoop([user |-> user, awarded |-> <<>>], achs, 1)

\* One iteration of the loop of awardPointsForEvent (lines 491-505)
awardStep(acc, achs, i) ==
  IF achs[i].isActive
     /\ ~hasAchievement(acc.user, i)
     /\ checkEligibility(achs[i], acc.user)
  THEN [user |-> [acc.user EXCEPT
                    !.achievements =
                       Append(@, [achievementId |-> i,
                                  points |-> achs[i].points])],
        awarded |-> Append(acc.awarded, i)]
  ELSE acc

RECURSIVE awardLoop(_, _, _)
awardLoop(acc, achs, i) ==
  IF i > Len(achs) THEN acc
  ELSE awardLoop(awardStep(acc, achs, i), achs, i + 1)

\* awardPointsForEvent, lines 486-509, on the in-memory user document
awardSweep(user, achs) == awardLoop([user |-> user, awarded |-> <<>>], achs, 1)

\* ------------------------------------------------------------ handlers
\* participateInEvent (POST /api/events/:id/participate) for req.user.id = u
participateInEvent_saveBeforeCheck(usrs, evs, u, e) ==
  IF ~(e \in 1..Len(evs))
  THEN Outcome(FALSE, usrs, evs, <<>>)
  ELSE IF ~canParticipate(evs[e], u)
  THEN Outcome(FALSE, usrs, [evs EXCEPT ![e] = joinEvent(@, u)], <<>>)
  ELSE Outcome(TRUE,
               [usrs EXCEPT ![u] = joinUser(@, evs[e], e)],
               [evs EXCEPT ![e] = joinEvent(@, u)],
               <<>>)

participateInEvent(usrs, evs, u, e) ==
  IF ~(e \in 1..Len(evs))
  THEN Outcome(FALSE, usrs, evs, <<>>)
  ELSE IF ~canParticipate(evs[e], u)
  THEN Outcome(FALSE, usrs, evs, <<>>)
  ELSE Outcome(TRUE,
               [usrs EXCEPT ![u] = joinUser(@, evs[e], e)],
               [evs EXCEPT ![e] = joinEvent(@, u)],
               <<>>)

\* removeParticipation (DELETE /api/events/:id/participate) for req.user.id = u
removeParticipation(usrs, evs, u, e) ==
  IF ~(e \in 1..Len(evs))
  THEN Outcome(FALSE, usrs, evs, <<>>)
  ELSE IF participationIndex(evs[e], u) = 0
  THEN Outcome(FALSE, usrs, evs, <<>>)
  ELSE LET idx == participationIndex(evs[e], u)
           participation == evs[e].participants[idx]
       IN Outcome(TRUE,
                  [usrs EXCEPT ![u] = leaveUser(@, participation, e)],
                  [evs EXCEPT ![e] = leaveEvent(@, idx)],
                  <<>>)

\* awardPointsForEvent (POST /api/events/:id/award-points); userId 0 stands for a
\* body without userId, and points 0 is falsy like a body without points
awardPointsForEvent_noExistingCheck(usrs, evs, achs, userId, e, points) ==
  IF ~(e \in 1..Len(evs))
  THEN Outcome(FALSE, usrs, evs, <<>>)
  ELSE IF userId = 0 \/ points = 0
  THEN Outcome(FALSE, usrs, evs, <<>>)
  ELSE IF ~(userId \in 1..Len(usrs))
  THEN Outcome(FALSE, usrs, evs, <<>>)
  ELSE LET saved == awardUser(usrs[userId], evs[e], e, points)
           swept == awardSweep(saved, achs)
       IN Outcome(TRUE,
                  [usrs EXCEPT ![userId] = swept.user],
                  [evs EXCEPT ![e] = awardEvent(@, userId, points)],
                  swept.awarded)

awardPointsForEvent(usrs, evs, achs, userId, e, points) ==
  IF ~(e \in 1..Len(evs))
  THEN Outcome(FALSE, usrs, evs, <<>>)
  ELSE IF userId = 0 \/ points = 0
  THEN Outcome(FALSE, usrs, evs, <<>>)
  ELSE IF ~(userId \in 1..Len(usrs))
  THEN Outcome(FALSE, usrs, evs, <<>>)
  ELSE IF isParticipating(evs[e], userId)
  THEN Outcome(FALSE, usrs, evs, <<>>)
  ELSE LET saved == awardUser(usrs[userId], evs[e], e, points)
           swept == awardSweep(saved, achs)
       IN Outcome(TRUE,
                  [usrs EXCEPT ![userId] = swept.user],
                  [evs EXCEPT ![e] = awardEvent(@, userId, points)],
                  swept.awarded)

\* checkUserAchievements (POST /api/achievements/check) for req.user.id = u
checkUserAchievements(usrs, evs, achs, u) ==
  LET swept == checkSweep(usrs[u], achs)
  IN Outcome(TRUE, [usrs EXCEPT ![u] = swept.user], evs, swept.awarded)

\* ------------------------------------------------------------------ Init
Init ==
  /\ users = <<>>
  /\ events = <<>>
  /\ achievements = <<>>
  /\ now = 0
  /\ last = Request("none", 0, 0, 0, TRUE, <<>>, NoSnapshot)
  /\ joined = {}
  /\ requests = 0
  /\ inflight = <<>>

\* --------------------------------------------------------------- actions
\* one more request is accepted by the server and runs to completion on its
\* own
Handled ==
  /\ requests < MaxRequests
  /\ requests' = requests + 1
  /\ UNCHANGED inflight

\* time passes between requests; once every date has passed, a later clock
\* value changes nothing
Tick ==
  /\ \E d \in DateChoices : now < d
  /\ now' = now + 1
  /\ UNCHANGED <<users, events, achievements, last, joined, requests,
                 inflight>>

\* POST /api/auth/register
Register ==
  /\ Handled
  /\ Len(users) < MaxUsers
  /\ users' = Append(users, NewUser)
  /\ last' = Request("register", Len(users) + 1, 0, 0, TRUE, <<>>, NoSnapshot)
  /\ UNCHANGED <<events, achievements, now, joined>>

\* POST /api/events (admin); the validated date is not in the past
CreateEvent(points, date, maxParticipants) ==
  /\ Handled
  /\ Len(events) < MaxEvents
  /\ date >= now
  /\ events' = Append(events,
        preSave([points |-> points, date |-> date, status |-> "upcoming",
                 participants |-> <<>>, maxParticipants |-> maxParticipants,
                 isActive |-> TRUE]))
  /\ last' = Request("createEvent", 0, Len(events) + 1, 0, TRUE, <<>>,
                     NoSnapshot)
  /\ UNCHANGED <<users, achievements, now, joined>>

\* PUT /api/events/:id (admin), findByIdAndUpdate of one supplied field
UpdateEventStatus(e, status) ==
  /\ Handled
  /\ EventExists(e)
  /\ events' = [events EXCEPT ![e].status = status]
  /\ last' = Request("updateEvent", 0, e, 0, TRUE, <<>>, NoSnapshot)
  /\ UNCHANGED <<users, achievements, now, joined>>

\* the request record keeps the snapshot of a Join on e that came right
\* before an update that changes e.points
UpdateEventPoints(e, points) ==
  /\ Handled
  /\ EventExists(e)
  /\ events' = [events EXCEPT ![e].points = points]
  /\ last' = IF last.op = "join" /\ last.ok /\ last.e = e
                 /\ points # events[e].points
              THEN Request("updateEvent", last.u, e, 0, TRUE, <<>>,
                           [last.pre EXCEPT !.repriced = TRUE])
              ELSE Request("updateEvent", 0, e, 0, TRUE, <<>>, NoSnapshot)
  /\ UNCHANGED <<users, achievements, now, joined>>

UpdateEventMaxParticipants(e, maxParticipants) ==
  /\ Handled
  /\ EventExists(e)
  /\ maxParticipants # NoLimit
  /\ events' = [events EXCEPT ![e].maxParticipants = maxParticipants]
  /\ last' = Request("updateEvent", 0, e, 0, TRUE, <<>>, NoSnapshot)
  /\ UNCHANGED <<users, achievements, now, joined>>

\* DELETE /api/events/:id (admin)
DeleteEvent_hardDelete(e) ==
  /\ Handled
  /\ EventExists(e)
  /\ events' = SubSeq(events, 1, e - 1) \o SubSeq(events, e + 1, Len(events))
  /\ last' = Request("deleteEvent", 0, e, 0, TRUE, <<>>, NoSnapshot)
  /\ UNCHANGED <<users, achievements, now, joined>>

DeleteEvent(e) ==
  /\ Handled
  /\ EventExists(e)
  /\ events' = [events EXCEPT ![e] = preSave([@ EXCEPT !.isActive = FALSE])]
  /\ last' = Request("deleteEvent", 0, e, 0, TRUE, <<>>, NoSnapshot)
  /\ UNCHANGED <<users, achievements, now, joined>>

\* POST /api/achievements (admin)
CreateAchievement(t) ==
  /\ Handled
  /\ Len(achievements) < MaxAchievements
  /\ achievements' = Append(achievements,
        [type |-> t.type, value |-> t.value, points |-> t.points,
         isActive |-> TRUE])
  /\ last' = Request("createAchievement", 0, 0, 0, TRUE, <<>>, NoSnapshot)
  /\ UNCHANGED <<users, events, now, joined>>

\* DELETE /api/achievements/:id (admin)
DeleteAchievement(a) ==
  /\ Handled
  /\ a \in 1..Len(achievements)
  /\ achievements' = [achievements EXCEPT ![a].isActive = FALSE]
  /\ last' = Request("deleteAchievement", 0, 0, 0, TRUE, <<>>, NoSnapshot)
  /\ UNCHANGED <<users, events, now, joined>>

\* DELETE /api/users/:id (admin)
DeleteUser(u) ==
  /\ Handled
  /\ UserExists(u)
  /\ users' = [users EXCEPT ![u].isActive = FALSE]
  /\ last' = Request("deleteUser", u, 0, 0, TRUE, <<>>, NoSnapshot)
  /\ UNCHANGED <<events, achievements, now, joined>>

\* Join: a registered user u asks to participate in event e
Join(u, e) ==
  /\ Handled
  /\ UserExists(u)
  /\ LET r == participateInEvent(users, events, u, e)
     IN /\ users' = r.users
        /\ events' = r.events
        /\ last' = Request("join", u, e, 0, r.ok, <<>>,
                           IF r.ok THEN Snapshot(users[u], events[e])
                                   ELSE NoSnapshot)
        /\ joined' = IF r.ok THEN joined \cup {<<u, e>>} ELSE joined
  /\ UNCHANGED <<achievements, now>>

\* Leave: a registered user u asks to be removed from event e; the request
\* record keeps the snapshot of a Join by u on e that came right before it,
\* or right before the points update that came right before it
Leave(u, e) ==
  /\ Handled
  /\ UserExists(u)
  /\ LET r == removeParticipation(users, events, u, e)
     IN /\ users' = r.users
        /\ events' = r.events
        /\ last' = Request("leave", u, e, 0, r.ok, <<>>,
                           IF /\ last.op \in {"join", "updateEvent"}
                              /\ last.ok /\ last.pre.has
                              /\ last.u = u /\ last.e = e
                           THEN last.pre ELSE NoSnapshot)
        /\ joined' = IF r.ok THEN joined \ {<<u, e>>} ELSE joined
  /\ UNCHANGED <<achievements, now>>

\* Administrative award of points to userId for event e
Award(userId, e, points) ==
  /\ Handled
  /\ LET r == awardPointsForEvent(users, events, achievements, userId, e,
                                  points)
     IN /\ users' = r.users
        /\ events' = r.events
        /\ last' = Request("award", userId, e, points, r.ok, r.awarded,
                           NoSnapshot)
  /\ UNCHANGED <<achievements, now, joined>>

\* Check-achievements by a registered user u
Check(u) ==
  /\ Handled
  /\ UserExists(u)
  /\ LET r == checkUserAchievements(users, events, achievements, u)
     IN /\ users' = r.users
        /\ events' = r.events
        /\ last' = Request("check", u, 0, 0, r.ok, r.awarded, NoSnapshot)
  /\ UNCHANGED <<achievements, now, joined>>

Next ==
  \/ Tick
  \/ Register
  \/ \E p \in EventPointsChoices, d \in DateChoices,
        m \in MaxParticipantsChoices : CreateEvent(p, d, m)
  \/ \E e \in EventIds, s \in StatusChoices : UpdateEventStatus(e, s)
  \/ \E e \in EventIds, p \in EventPointsChoices : UpdateEventPoints(e, p)
  \/ \E e \in EventIds, m \in MaxParticipantsChoices :
        UpdateEventMaxParticipants(e, m)
  \/ \E e \in EventIds : DeleteEvent(e)
  \/ \E t \in AchievementTemplates : CreateAchievement(t)
  \/ \E a \in AchievementIds : DeleteAchievement(a)
  \/ \E u \in UserIds : DeleteUser(u)
  \/ \E u \in UserIds, e \in EventIds : Join(u, e)
  \/ \E u \in UserIds, e \in EventIds : Leave(u, e)
  \/ \E u \in UserIds, e \in EventIds,
        v \in AwardPointsChoices : Award(u, e, v)
  \/ \E u \in UserIds : Check(u)

Spec == Init /\ [][Next]_vars

\* ------------------------------------------- the eligibility evaluator
\* one stored user and one stored achievement, drawn from the input sets
EligibilityUser(points, count) ==
  LET u1 == [NewUser EXCEPT
               !.totalPoints = points,
               !.eventsParticipated =
                  [i \in 1..count |-> [eventId |-> i, pointsEarned |-> 100]]]
  IN [u1 EXCEPT !.level = calculateLevel(u1)]

EligibilityInit ==
  /\ \E points \in EligibilityPoints, count \in EligibilityEventCounts :
        users = <<EligibilityUser(points, count)>>
  /\ \E type \in RequirementTypes, value \in RequirementValues,
        active \in BOOLEAN :
        achievements = <<[type |-> type, value |-> value, points |-> 50,
                          isActive |-> active]>>
  /\ events = <<>>
  /\ now = 0
  /\ last = Request("none", 0, 0, 0, TRUE, <<>>, NoSnapshot)
  /\ joined = {}
  /\ requests = 0
  /\ inflight = <<>>

\* achievement a evaluates user u; the answer is kept in last.ok
Evaluate(a, u) ==
  /\ Handled
  /\ last.op = "none"
  /\ a \in 1..Len(achievements)
  /\ UserExists(u)
  /\ last' = Request("checkEligibility", u, 0, a,
                     checkEligibility(achievements[a], users[u]), <<>>,
                     NoSnapshot)
  /\ UNCHANGED <<users, events, achievements, now, joined>>

EligibilityNext == \E a \in AchievementIds, u \in UserIds : Evaluate(a, u)

SpecEligibility == EligibilityInit /\ [][EligibilityNext]_vars

\* ------------------------------------------- repeated check-achievements
\* a user who joined count 100-point events, and a list of stored
\* achievements in creation order
SweepInit ==
  /\ \E count \in EligibilityEventCounts :
        users = <<EligibilityUser(100 * count, count)>>
  /\ \E n \in 1..MaxAchievements :
        achievements \in
           [1..n -> {[type |-> t.type, value |-> t.value,
                      points |-> t.points, isActive |-> active] :
                       t \in AchievementTemplates, active \in BOOLEAN}]
  /\ events = <<>>
  /\ now = 0
  /\ last = Request("none", 0, 0, 0, TRUE, <<>>, NoSnapshot)
  /\ joined = {}
  /\ requests = 0
  /\ inflight = <<>>

SweepNext == \E u \in UserIds : Check(u)

SpecSweep == SweepInit /\ [][SweepNext]_vars

\* ------------------------------------------------------------ read paths
\* the ids of the documents a query returns, in id order
findAll(docs) == [i \in 1..Len(docs) |-> i]

\* find({..., isActive: true})
findActive(docs) ==
  LET Active(i) == docs[i].isActive
  IN SelectSeq(findAll(docs), Active)

\* findById(id)
findById(docs, id) == IF id \in 1..Len(docs) THEN <<id>> ELSE <<>>

\* Event.getUpcomingEvents
getUpcomingEvents(evs) ==
  LET Upcoming(i) ==
        evs[i].status = "upcoming" /\ evs[i].isActive /\ evs[i].date >= now
  IN SelectSeq(findAll(evs), Upcoming)

\* a read request: nothing is written; last.awarded keeps the ids of the
\* documents the answer carries
Read(op, returned) ==
  /\ Handled
  /\ last' = Request(op, 0, 0, 0, TRUE, returned, NoSnapshot)
  /\ UNCHANGED <<users, events, achievements, now, joined>>

EventReads ==
  {"getEvents", "getUpcomingEvents", "getEventsByDepartment", "getEvent"}
AchievementReads ==
  {"getAchievements", "getAchievementsByCategory", "getRareAchievements",
   "getAchievement"}
UserReads == {"getUsers", "getLeaderboard", "getUserProfile"}

\* GET /api/events, /upcoming, /department/:department, /:id
GetEvents == Read("getEvents", findActive(events))
GetUpcomingEvents == Read("getUpcomingEvents", getUpcomingEvents(events))
GetEventsByDepartment == Read("getEventsByDepartment", findActive(events))
GetEvent(e) == EventExists(e) /\ Read("getEvent", findById(events, e))

\* GET /api/achievements, /category/:category, /rare, /:id
GetAchievements == Read("getAchievements", findActive(achievements))
GetAchievementsByCategory ==
  Read("getAchievementsByCategory", findActive(achievements))
GetRareAchievements == Read("getRareAchievements", findActive(achievements))
GetAchievement(a) ==
  a \in 1..Len(achievements)
    /\ Read("getAchievement", findById(achievements, a))

\* GET /api/users/leaderboard, /profile/:id
GetLeaderboard == Read("getLeaderboard", findActive(users))
GetUserProfile(u) == UserExists(u) /\ Read("getUserProfile", findById(users, u))

\* ------------------------------------------------- route-level role gating
Roles == {"student", "admin"}

\* status of the answer of authorize(...roles) to a role outside roles
Forbidden == 403

\* the roles each route admits: {"admin"} where the route carries
\* authorize('admin'), every role where it carries protect alone
RouteRoles ==
  [ createEvent       |-> {"admin"},
    updateEvent       |-> {"admin"},
    deleteEvent       |-> {"admin"},
    join              |-> Roles,
    leave             |-> Roles,
    award             |-> {"admin"},
    createAchievement |-> {"admin"},
    updateAchievement |-> {"admin"},
    deleteAchievement |-> {"admin"},
    check             |-> Roles,
    getUsers          |-> {"admin"},
    updateUser        |-> {"admin"},
    deleteUser        |-> {"admin"},
    getUserStats      |-> {"admin"} ]

AdminRoutes == {r \in DOMAIN RouteRoles : RouteRoles[r] = {"admin"}}

\* authorize(...roles): next() exactly when roles includes req.user.role
authorize_anyRole(roles, role) == TRUE

authorize(roles, role) == role \in roles

\* GET /api/users (admin)
GetUsers == Read("getUsers", findAll(users))

\* GET /api/users/stats (admin)
GetUserStats ==
  /\ Handled
  /\ last' = Request("getUserStats", 0, 0, 0, TRUE, <<>>, NoSnapshot)
  /\ UNCHANGED <<users, events, achievements, now, joined>>

\* PUT /api/users/:id (admin), findByIdAndUpdate of the supplied isActive
UpdateUser(u, active) ==
  /\ Handled
  /\ UserExists(u)
  /\ users' = [users EXCEPT ![u].isActive = active]
  /\ last' = Request("updateUser", u, 0, 0, TRUE, <<>>, NoSnapshot)
  /\ UNCHANGED <<events, achievements, now, joined>>

\* PUT /api/achievements/:id (admin), findByIdAndUpdate of the supplied
\* isActive
UpdateAchievement(a, active) ==
  /\ Handled
  /\ a \in 1..Len(achievements)
  /\ achievements' = [achievements EXCEPT ![a].isActive = active]
  /\ last' = Request("updateAchievement", 0, 0, 0, TRUE, <<>>, NoSnapshot)
  /\ UNCHANGED <<users, events, now, joined>>

\* the middleware chain of one route for an authenticated user of the given
\* role: authorize answers 403 and the handler is never called, or calls
\* next() and the handler runs
Dispatch(role, route, Handler) ==
  IF authorize(RouteRoles[route], role)
  THEN Handler
  ELSE /\ Handled
       /\ last' = Request(route, 0, 0, Forbidden, FALSE, <<>>, NoSnapshot)
       /\ UNCHANGED <<users, events, achievements, now, joined>>

\* a store an administrator has filled: one registered student, one upcoming
\* event, one active achievement
StudentInit ==
  /\ users = <<NewUser>>
  /\ \E p \in EventPointsChoices, d \in DateChoices,
        m \in MaxParticipantsChoices :
        events = <<[points |-> p, date |-> d, status |-> "upcoming",
                    participants |-> <<>>, maxParticipants |-> m,
                    isActive |-> TRUE]>>
  /\ \E t \in AchievementTemplates :
        achievements = <<[type |-> t.type, value |-> t.value,
                          points |-> t.points, isActive |-> TRUE]>>
  /\ now = 0
  /\ last = Request("none", 0, 0, 0, TRUE, <<>>, NoSnapshot)
  /\ joined = {}
  /\ requests = 0
  /\ inflight = <<>>

\* every request comes from a user whose role is student
StudentNext ==
  \/ \E p \in EventPointsChoices, d \in DateChoices,
        m \in MaxParticipantsChoices :
        Dispatch("student", "createEvent", CreateEvent(p, d, m))
  \/ \E e \in EventIds, s \in StatusChoices :
        Dispatch("student", "updateEvent", UpdateEventStatus(e, s))
  \/ \E e \in EventIds, p \in EventPointsChoices :
        Dispatch("student", "updateEvent", UpdateEventPoints(e, p))
  \/ \E e \in EventIds, m \in MaxParticipantsChoices :
        Dispatch("student", "updateEvent", UpdateEventMaxParticipants(e, m))
  \/ \E e \in EventIds : Dispatch("student", "deleteEvent", DeleteEvent(e))
  \/ \E u \in UserIds, e \in EventIds :
        Dispatch("student", "join", Join(u, e))
  \/ \E u \in UserIds, e \in EventIds :
        Dispatch("student", "leave", Leave(u, e))
  \/ \E u \in UserIds, e \in EventIds, v \in AwardPointsChoices :
        Dispatch("student", "award", Award(u, e, v))
  \/ \E t \in AchievementTemplates :
        Dispatch("student", "createAchievement", CreateAchievement(t))
  \/ \E a \in AchievementIds, b \in BOOLEAN :
        Dispatch("student", "updateAchievement", UpdateAchievement(a, b))
  \/ \E a \in AchievementIds :
        Dispatch("student", "deleteAchievement", DeleteAchievement(a))
  \/ \E u \in UserIds : Dispatch("student", "check", Check(u))
  \/ Dispatch("student", "getUsers", GetUsers)
  \/ \E u \in UserIds, b \in BOOLEAN :
        Dispatch("student", "updateUser", UpdateUser(u, b))
  \/ \E u \in UserIds : Dispatch("student", "deleteUser", DeleteUser(u))
  \/ Dispatch("student", "getUserStats", GetUserStats)

SpecStudent == StudentInit /\ [][StudentNext]_vars

\* ------------------------------------------ request bodies on user documents
\* a request body: every field is absent (<<>>) or carries one value; level
\* and totalPoints are sent together or not at all
BodyChoices ==
  {body \in [isActive : {<<>>, <<TRUE>>, <<FALSE>>},
             level : {<<>>, <<99>>},
             totalPoints : {<<>>, <<5000>>}] :
     (body.level = <<>>) = (body.totalPoints = <<>>)}

\* the body fields each handler copies into the document it writes
RegisterFields ==
  {"name", "email", "password", "role", "studentId", "department", "year"}

UpdateDetailsFields == {"name", "email", "department", "year"}

UpdateUserFields_withTotalPoints ==
  {"name", "department", "year", "isActive", "totalPoints"}

UpdateUserFields == {"name", "department", "year", "isActive"}

\* the fields of body a handler passes on; the others are dropped
pickFields(body, allowed) ==
  [f \in DOMAIN body |-> IF f \in allowed THEN body[f] ELSE <<>>]

\* User.create / findByIdAndUpdate: every passed field the schema knows is
\* stored as given
storeFields(user, fields) ==
  [user EXCEPT
     !.isActive = IF fields.isActive # <<>> THEN fields.isActive[1] ELSE @,
     !.level = IF fields.level # <<>> THEN fields.level[1] ELSE @,
     !.totalPoints =
        IF fields.totalPoints # <<>> THEN fields.totalPoints[1] ELSE @]

\* POST /api/auth/register with a body
RegisterWithBody(body) ==
  /\ Handled
  /\ Len(users) < MaxUsers
  /\ users' = Append(users,
                     storeFields(NewUser, pickFields(body, RegisterFields)))
  /\ last' = Request("register", Len(users) + 1, 0, 0, TRUE, <<>>, NoSnapshot)
  /\ UNCHANGED <<events, achievements, now, joined>>

\* PUT /api/auth/updatedetails by user u
UpdateDetails(u, body) ==
  /\ Handled
  /\ UserExists(u)
  /\ users' = [users EXCEPT
                 ![u] = storeFields(@, pickFields(body, UpdateDetailsFields))]
  /\ last' = Request("updateDetails", u, 0, 0, TRUE, <<>>, NoSnapshot)
  /\ UNCHANGED <<events, achievements, now, joined>>

\* PUT /api/users/:id (admin) with a body
UpdateUserWithBody(u, body) ==
  /\ Handled
  /\ UserExists(u)
  /\ users' = [users EXCEPT
                 ![u] = storeFields(@, pickFields(body, UpdateUserFields))]
  /\ last' = Request("updateUser", u, 0,
                     IF body.totalPoints # <<>> \/ body.level # <<>>
                     THEN 1 ELSE 0,
                     TRUE, <<>>, NoSnapshot)
  /\ UNCHANGED <<events, achievements, now, joined>>

ProfileNext ==
  \/ \E body \in BodyChoices : RegisterWithBody(body)
  \/ \E u \in UserIds, body \in BodyChoices : UpdateDetails(u, body)
  \/ \E u \in UserIds, body \in BodyChoices : UpdateUserWithBody(u, body)
  \/ \E u \in UserIds, e \in EventIds : Join(u, e)
  \/ \E u \in UserIds, e \in EventIds : Leave(u, e)
  \/ \E u \in UserIds, e \in EventIds,
        v \in AwardPointsChoices : Award(u, e, v)
  \/ \E u \in UserIds : Check(u)

SpecProfile == StudentInit /\ [][ProfileNext]_vars

\* soft deletes and reads on a filled store
ReadNext ==
  \/ \E e \in EventIds : DeleteEvent(e)
  \/ \E a \in AchievementIds : DeleteAchievement(a)
  \/ \E u \in UserIds : DeleteUser(u)
  \/ GetEvents
  \/ GetUpcomingEvents
  \/ GetEventsByDepartment
  \/ \E e \in EventIds : GetEvent(e)
  \/ GetAchievements
  \/ GetAchievementsByCategory
  \/ GetRareAchievements
  \/ \E a \in AchievementIds : GetAchievement(a)
  \/ GetUsers
  \/ GetLeaderboard
  \/ \E u \in UserIds : GetUserProfile(u)

SpecRead == StudentInit /\ [][ReadNext]_vars

\* ------------------------------------- a user save that throws mid-handler
\* participateInEvent when user.save() (line 386) throws: event.save() (line
\* 375) has already written, nothing undoes it, the error handler answers
participateInEventUserSaveThrows_rollback(usrs, evs, u, e) ==
  Outcome(FALSE, usrs, evs, <<>>)

participateInEventUserSaveThrows(usrs, evs, u, e) ==
  IF ~(e \in 1..Len(evs))
  THEN Outcome(FALSE, usrs, evs, <<>>)
  ELSE IF ~canParticipate(evs[e], u)
  THEN Outcome(FALSE, usrs, evs, <<>>)
  ELSE Outcome(FALSE, usrs, [evs EXCEPT ![e] = joinEvent(@, u)], <<>>)

\* removeParticipation when user.save() (line 429) throws after event.save()
\* (line 418)
removeParticipationUserSaveThrows(usrs, evs, u, e) ==
  IF ~(e \in 1..Len(evs))
  THEN Outcome(FALSE, usrs, evs, <<>>)
  ELSE IF participationIndex(evs[e], u) = 0
  THEN Outcome(FALSE, usrs, evs, <<>>)
  ELSE Outcome(FALSE, usrs,
               [evs EXCEPT ![e] = leaveEvent(@, participationIndex(@, u))],
               <<>>)

\* awardPointsForEvent when the first user.save() (line 484) throws after
\* event.save() (line 474)
awardPointsForEventUserSaveThrows(usrs, evs, achs, userId, e, points) ==
  IF ~(e \in 1..Len(evs))
  THEN Outcome(FALSE, usrs, evs, <<>>)
  ELSE IF userId = 0 \/ points = 0
  THEN Outcome(FALSE, usrs, evs, <<>>)
  ELSE IF ~(userId \in 1..Len(usrs))
  THEN Outcome(FALSE, usrs, evs, <<>>)
  ELSE IF isParticipating(evs[e], userId)
  THEN Outcome(FALSE, usrs, evs, <<>>)
  ELSE Outcome(FALSE, usrs,
               [evs EXCEPT ![e] = awardEvent(@, userId, points)], <<>>)

JoinUserSaveThrows(u, e) ==
  /\ Handled
  /\ UserExists(u)
  /\ LET r == participateInEventUserSaveThrows(users, events, u, e)
     IN /\ users' = r.users
        /\ events' = r.events
        /\ last' = Request("joinUserSaveThrows", u, e, 0, r.ok, <<>>,
                           NoSnapshot)
  /\ UNCHANGED <<achievements, now, joined>>

LeaveUserSaveThrows(u, e) ==
  /\ Handled
  /\ UserExists(u)
  /\ LET r == removeParticipationUserSaveThrows(users, events, u, e)
     IN /\ users' = r.users
        /\ events' = r.events
        /\ last' = Request("leaveUserSaveThrows", u, e, 0, r.ok, <<>>,
                           NoSnapshot)
  /\ UNCHANGED <<achievements, now, joined>>

AwardUserSaveThrows(userId, e, points) ==
  /\ Handled
  /\ LET r == awardPointsForEventUserSaveThrows(users, events, achievements,
                                                userId, e, points)
     IN /\ users' = r.users
        /\ events' = r.events
        /\ last' = Request("awardUserSaveThrows", userId, e, points, r.ok,
                           <<>>, NoSnapshot)
  /\ UNCHANGED <<achievements, now, joined>>

\* requests on a filled store, any of which may lose its user save
FailureNext ==
  \/ \E u \in UserIds, e \in EventIds : Join(u, e)
  \/ \E u \in UserIds, e \in EventIds : Leave(u, e)
  \/ \E u \in UserIds, e \in EventIds,
        v \in AwardPointsChoices : Award(u, e, v)
  \/ \E u \in UserIds, e \in EventIds : JoinUserSaveThrows(u, e)
  \/ \E u \in UserIds, e \in EventIds : LeaveUserSaveThrows(u, e)
  \/ \E u \in UserIds, e \in EventIds,
        v \in AwardPointsChoices : AwardUserSaveThrows(u, e, v)

SpecFailure == StudentInit /\ [][FailureNext]_vars

\* ------------------------------------------- Join requests that interleave
\* a Join request in flight: where it stands, and the documents it has
\* loaded (<<>> until loaded)
Pending(u, e) ==
  [pc |-> "loadEvent", u |-> u, e |-> e, event |-> <<>>, user |-> <<>>,
   ok |-> FALSE]

\* event.save() after participants.push (lines 369-375): the push is sent as
\* an append to the stored array, the hook's status change as a set
saveJoinedEvent(stored, loaded, userId) ==
  LET pushed == [stored EXCEPT
                   !.participants =
                      Append(@, [userId |-> userId,
                                 pointsEarned |-> loaded.points])]
  IN IF preSave(loaded).status # loaded.status
     THEN [pushed EXCEPT !.status = preSave(loaded).status]
     ELSE pushed

\* user.save() (lines 377-386): totalPoints and level are set to the values
\* computed on the loaded document, the push is sent as an append
saveJoinedUser_increment(stored, loaded, ev, eventId) ==
  joinUser(stored, ev, eventId)

saveJoinedUser(stored, loaded, ev, eventId) ==
  LET computed == joinUser(loaded, ev, eventId)
  IN [stored EXCEPT
        !.totalPoints = computed.totalPoints,
        !.level = computed.level,
        !.eventsParticipated =
           Append(@, [eventId |-> eventId, pointsEarned |-> ev.points])]

\* one registered user, two stored events, two Join requests of that user
\* accepted together, on the same event or on different ones
ConcurrentInit ==
  /\ users = <<NewUser>>
  /\ \E p1, p2 \in EventPointsChoices, d \in DateChoices,
        m1, m2 \in MaxParticipantsChoices :
        events = <<[points |-> p1, date |-> d, status |-> "upcoming",
                    participants |-> <<>>, maxParticipants |-> m1,
                    isActive |-> TRUE],
                   [points |-> p2, date |-> d, status |-> "upcoming",
                    participants |-> <<>>, maxParticipants |-> m2,
                    isActive |-> TRUE]>>
  /\ achievements = <<>>
  /\ now = 0
  /\ last = Request("none", 0, 0, 0, TRUE, <<>>, NoSnapshot)
  /\ joined = {}
  /\ requests = 0
  /\ \E e1, e2 \in 1..2 : inflight = <<Pending(1, e1), Pending(1, e2)>>

\* Event.findById and canParticipate on the loaded document (lines 358-367)
LoadEvent(i) ==
  /\ inflight[i].pc = "loadEvent"
  /\ LET r == inflight[i]
         ev == events[r.e]
     IN inflight' =
          IF canParticipate(ev, r.u)
          THEN [inflight EXCEPT ![i].event = <<ev>>, ![i].pc = "saveEvent"]
          ELSE [inflight EXCEPT ![i].pc = "done"]
  /\ UNCHANGED <<users, events, achievements, now, last, joined, requests>>

\* event.save() (line 375)
SaveEvent(i) ==
  /\ inflight[i].pc = "saveEvent"
  /\ LET r == inflight[i]
     IN events' = [events EXCEPT
                     ![r.e] = saveJoinedEvent(@, r.event[1], r.u)]
  /\ inflight' = [inflight EXCEPT ![i].pc = "loadUser"]
  /\ UNCHANGED <<users, achievements, now, last, joined, requests>>

\* User.findById (line 378)
LoadUser(i) ==
  /\ inflight[i].pc = "loadUser"
  /\ inflight' = [inflight EXCEPT ![i].user = <<users[inflight[i].u]>>,
                                  ![i].pc = "saveUser"]
  /\ UNCHANGED <<users, events, achievements, now, last, joined, requests>>

\* user.save() and the success answer (lines 386-392)
SaveUser(i) ==
  /\ inflight[i].pc = "saveUser"
  /\ LET r == inflight[i]
     IN users' = [users EXCEPT
                    ![r.u] = saveJoinedUser(@, r.user[1], r.event[1], r.e)]
  /\ inflight' = [inflight EXCEPT ![i].pc = "done", ![i].ok = TRUE]
  /\ UNCHANGED <<events, achievements, now, last, joined, requests>>

ConcurrentNext ==
  \/ \E i \in DOMAIN inflight : LoadEvent(i)
  \/ \E i \in DOMAIN inflight : SaveEvent(i)
  \/ \E i \in DOMAIN inflight : LoadUser(i)
  \/ \E i \in DOMAIN inflight : SaveUser(i)

SpecConcurrent == ConcurrentInit /\ [][ConcurrentNext]_vars

\* both requests in flight have been answered
BothAnswered ==
  /\ Len(inflight) = 2
  /\ inflight[1].pc = "done"
  /\ inflight[2].pc = "done"

\* the pointsEarned recorded in a user's eventsParticipated, added up
RecordedPoints(user) ==
  SumSeq([j \in 1..Len(user.eventsParticipated) |->
            user.eventsParticipated[j].pointsEarned], 1)

\* ------------------------------------------------------------ properties
\* the step just taken handled a request of kind op
IsStep(op) == requests' = requests + 1 /\ last'.op = op

\* C1: every stored level is floor(totalPoints / 200) + 1, i.e. totalPoints
\* lies in the 200-wide band [200 * (level - 1), 200 * level).
C1_LevelIsFloorOfPoints ==
  \A u \in 1..Len(users) :
     /\ LevelStep * (users[u].level - 1) <= users[u].totalPoints
     /\ users[u].totalPoints < LevelStep * users[u].level

\* a check-achievements call has just carried a user over a level boundary
C1_Witness ==
  /\ last.op = "check"
  /\ last.awarded # <<>>
  /\ users[last.u].totalPoints >= LevelStep
  /\ users[last.u].level = 2

\* C2: a Leave handled right after a successful Join by the same user on the
\* same event succeeds and puts totalPoints, level, eventsParticipated and
\* the event's participants back to the values the Join found.
C2_JoinLeaveRoundTrip ==
  (last.op = "leave" /\ last.pre.has /\ ~last.pre.repriced) =>
     /\ last.ok
     /\ users[last.u].totalPoints = last.pre.totalPoints
     /\ users[last.u].level = last.pre.level
     /\ users[last.u].eventsParticipated = last.pre.eventsParticipated
     /\ events[last.e].participants = last.pre.participants

\* the round trip has happened: the Join added points and a record, the
\* Leave right after it took both away again
C2_Witness ==
  /\ last.op = "leave"
  /\ last.ok
  /\ last.pre.has
  /\ ~last.pre.repriced
  /\ ~isParticipating(events[last.e], last.u)

\* C3: a Join on an existing event succeeds exactly when the event is
\* active, its status is upcoming or ongoing, the user is not among its
\* participants, and maxParticipants is unset or exceeds the participant
\* count; so it fails on every completed or cancelled event.
C3_JoinSucceedsIffPreconditions ==
  [][ (IsStep("join") /\ EventExists(last'.e)) =>
        LET ev == events[last'.e]
        IN /\ last'.ok <=>
                /\ ev.isActive
                /\ ev.status \in {"upcoming", "ongoing"}
                /\ \A i \in 1..Len(ev.participants) :
                      ev.participants[i].userId # last'.u
                /\ \/ ev.maxParticipants = NoLimit
                   \/ Len(ev.participants) < ev.maxParticipants
           /\ ev.status \in {"completed", "cancelled"} => ~last'.ok
    ]_vars

\* a Join was refused for the status alone: active event, completed, room
\* left, user not a participant
C3_Witness ==
  /\ last.op = "join"
  /\ ~last.ok
  /\ EventExists(last.e)
  /\ events[last.e].isActive
  /\ events[last.e].status = "completed"
  /\ events[last.e].maxParticipants = NoLimit
  /\ ~isParticipating(events[last.e], last.u)

\* C4: a rejected Join, Leave or administrative award leaves every user
\* document and every event document as it was.
C4_RejectedRequestChangesNothing ==
  [][ ((IsStep("join") \/ IsStep("leave") \/ IsStep("award")) /\ ~last'.ok)
        => (users' = users /\ events' = events)
    ]_vars

\* a Join was refused because the event is exactly at capacity
C4_Witness ==
  /\ last.op = "join"
  /\ ~last.ok
  /\ EventExists(last.e)
  /\ events[last.e].isActive
  /\ events[last.e].status \in {"upcoming", "ongoing"}
  /\ events[last.e].maxParticipants # NoLimit
  /\ Len(events[last.e].participants) = events[last.e].maxParticipants
  /\ ~isParticipating(events[last.e], last.u)

\* C5: while a successful Join of u on e has not been followed by a Leave of
\* u on e, every further Join of u on e is refused and changes neither u's
\* totalPoints nor e's participants; the successful Join added e.points once
\* and e.participants holds exactly one record for u.
C5_RepeatedJoinRefused ==
  /\ [](\A p \in joined :
          Cardinality({i \in 1..Len(events[p[2]].participants) :
                         events[p[2]].participants[i].userId = p[1]}) = 1)
  /\ [][ IsStep("join") =>
           LET u == last'.u
               e == last'.e
           IN /\ <<u, e>> \in joined =>
                    /\ ~last'.ok
                    /\ users'[u].totalPoints = users[u].totalPoints
                    /\ events'[e].participants = events[e].participants
              /\ last'.ok =>
                    users'[u].totalPoints
                       = users[u].totalPoints + events[e].points
       ]_vars

\* a second Join was refused on an event that would otherwise admit the user
C5_Witness ==
  /\ last.op = "join"
  /\ ~last.ok
  /\ <<last.u, last.e>> \in joined
  /\ events[last.e].isActive
  /\ events[last.e].status \in {"upcoming", "ongoing"}
  /\ events[last.e].maxParticipants = NoLimit

\* C6: a successful Join of u on e with e.points = p appends {u, p} to
\* e.participants and {e, p} to u.eventsParticipated, adds p to
\* u.totalPoints, and leaves every other user and the points and
\* participants of every other event alone.
C6_JoinBookkeeping ==
  [][ (IsStep("join") /\ last'.ok) =>
        LET u == last'.u
            e == last'.e
            p == events[e].points
        IN /\ events'[e].participants
                = Append(events[e].participants,
                         [userId |-> u, pointsEarned |-> p])
           /\ users'[u].eventsParticipated
                = Append(users[u].eventsParticipated,
                         [eventId |-> e, pointsEarned |-> p])
           /\ users'[u].totalPoints = users[u].totalPoints + p
           /\ \A x \in 1..Len(users) : x # u => users'[x] = users[x]
           /\ \A y \in 1..Len(events) :
                 y # e => /\ events'[y].points = events[y].points
                          /\ events'[y].participants = events[y].participants
    ]_vars

\* a Join succeeded while another user held points of their own
C6_Witness ==
  /\ last.op = "join"
  /\ last.ok
  /\ \E x \in 1..Len(users) : x # last.u /\ users[x].totalPoints # 0

\* C7: no achievements list holds the same achievementId twice.
C7_NoDuplicateAchievement ==
  \A u \in 1..Len(users) :
     \A i, j \in 1..Len(users[u].achievements) :
        i # j => users[u].achievements[i].achievementId
                    # users[u].achievements[j].achievementId

\* a check-achievements call met an achievement the user holds and still
\* qualifies for, and awarded nothing
C7_Witness ==
  /\ last.op = "check"
  /\ last.awarded = <<>>
  /\ \E a \in 1..Len(achievements) :
        /\ hasAchievement(users[last.u], a)
        /\ checkEligibility(achievements[a], users[last.u])

\* C8: check-achievements awards every active achievement the user does not
\* hold and qualifies for, only active achievements not held before and
\* each at most once, appends one record per award in award order, adds the
\* awarded points to totalPoints, recomputes level, leaves
\* eventsParticipated alone and returns exactly the awarded achievements.
C8_CheckAwardsEligible ==
  [][ IsStep("check") =>
        LET u == last'.u
            pre == users[u]
            post == users'[u]
            aw == last'.awarded
            pts == [k \in 1..Len(aw) |-> achievements[aw[k]].points]
        IN /\ \A a \in 1..Len(achievements) :
                 ( /\ achievements[a].isActive
                   /\ ~hasAchievement(pre, a)
                   /\ checkEligibility(achievements[a], pre) )
                 => \E k \in 1..Len(aw) : aw[k] = a
           /\ \A k \in 1..Len(aw) :
                 /\ aw[k] \in 1..Len(achievements)
                 /\ achievements[aw[k]].isActive
                 /\ ~hasAchievement(pre, aw[k])
                 /\ \A j \in 1..Len(aw) : j # k => aw[j] # aw[k]
                 /\ checkEligibility(achievements[aw[k]],
                       [pre EXCEPT !.totalPoints =
                                      @ + SumSeq(SubSeq(pts, 1, k - 1), 1)])
           /\ post.achievements
                = pre.achievements
                    \o [k \in 1..Len(aw) |->
                          [achievementId |-> aw[k], points |-> pts[k]]]
           /\ post.totalPoints = pre.totalPoints + SumSeq(pts, 1)
           /\ LevelStep * (post.level - 1) <= post.totalPoints
           /\ post.totalPoints < LevelStep * post.level
           /\ post.eventsParticipated = pre.eventsParticipated
    ]_vars

\* a user whose totalPoints had reached a points threshold was awarded that
\* achievement and holds its points on top
C8_Witness ==
  /\ last.op = "check"
  /\ \E k \in 1..Len(last.awarded) :
        LET a == achievements[last.awarded[k]]
        IN /\ a.type = "points"
           /\ users[last.u].totalPoints >= a.value + a.points

\* C9: an administrative award of a point value v to an existing user u for
\* an existing event e succeeds exactly when u is not among e.participants,
\* whatever isActive, status and maxParticipants are; it appends {u, v} and
\* {e, v}, adds v to totalPoints and then runs the Achievement Sweep on the
\* user; a refused award changes nothing.
C9_AwardThenSweep ==
  [][ ( /\ IsStep("award")
        /\ UserExists(last'.u)
        /\ EventExists(last'.e)
        /\ last'.v # 0 ) =>
        LET u == last'.u
            e == last'.e
            v == last'.v
            added == [users[u] EXCEPT
                        !.totalPoints = @ + v,
                        !.level = ((users[u].totalPoints + v) \div LevelStep)
                                     + 1,
                        !.eventsParticipated =
                           Append(@, [eventId |-> e, pointsEarned |-> v])]
        IN /\ last'.ok <=> ~isParticipating(events[e], u)
           /\ last'.ok =>
                 /\ events'[e].participants
                      = Append(events[e].participants,
                               [userId |-> u, pointsEarned |-> v])
                 /\ users'[u] = checkSweep(added, achievements).user
           /\ ~last'.ok => (users' = users /\ events' = events)
    ]_vars

\* C10: the sweep of the administrative-award flow ends with the same
\* totalPoints, level and achievements list as the sweep of the direct
\* check-achievements flow started from the same user and achievements.
C10_SweepsAgree ==
  [][ (IsStep("award") /\ last'.ok) =>
        LET u == last'.u
            start == awardUser(users[u], events[last'.e], last'.e, last'.v)
            direct == checkSweep(start, achievements).user
        IN /\ users'[u].totalPoints = direct.totalPoints
           /\ users'[u].level = direct.level
           /\ users'[u].achievements = direct.achievements
    ]_vars

\* C11: a Leave subtracts the pointsEarned recorded at Join time, not the
\* event's current points: after a Join of u on e, an admin update that
\* changes e.points and then a Leave of u on e, u.totalPoints is what it was
\* before the Join.
C11_LeaveSubtractsRecordedPoints ==
  (last.op = "leave" /\ last.pre.has /\ last.pre.repriced) =>
     /\ last.ok
     /\ users[last.u].totalPoints = last.pre.totalPoints

\* the Leave came after the event's points had moved away from the recorded
\* pointsEarned
C11_Witness ==
  /\ last.op = "leave"
  /\ last.ok
  /\ last.pre.has
  /\ last.pre.repriced
  /\ users[last.u].totalPoints = last.pre.totalPoints

\* C12: a Leave of u on an existing event e succeeds exactly when
\* e.participants holds a record for u, whatever e.status and e.isActive are;
\* a successful Leave takes that record out of e.participants and every
\* record for e out of u.eventsParticipated, and leaves the other records of
\* both lists in place; without a record the request fails.
C12_LeaveSucceedsIffRecord ==
  [][ (IsStep("leave") /\ EventExists(last'.e)) =>
        LET u == last'.u
            e == last'.e
            NotU(r) == r.userId # u
            NotE(r) == r.eventId # e
            held == {i \in 1..Len(events[e].participants) :
                       events[e].participants[i].userId = u}
        IN /\ last'.ok <=> held # {}
           /\ last'.ok =>
                 /\ Len(events'[e].participants)
                      = Len(events[e].participants) - 1
                 /\ events'[e].participants
                      = SelectSeq(events[e].participants, NotU)
                 /\ users'[u].eventsParticipated
                      = SelectSeq(users[u].eventsParticipated, NotE)
                 /\ \A i \in 1..Len(users'[u].eventsParticipated) :
                       users'[u].eventsParticipated[i].eventId # e
    ]_vars

\* a Leave succeeded on an event that had been soft-deleted or cancelled
C12_Witness ==
  /\ last.op = "leave"
  /\ last.ok
  /\ \/ ~events[last.e].isActive
     \/ events[last.e].status = "cancelled"
  /\ ~isParticipating(events[last.e], last.u)

\* C13: checkEligibility(user) answers true exactly when the achievement is
\* active and either its kind is points and totalPoints >= value, or its
\* kind is events and the number of eventsParticipated records >= value; it
\* answers false for streak, custom and every inactive achievement, and it
\* changes neither the user nor the achievement.
C13_EligibilityDecision ==
  /\ [](last.op = "checkEligibility" =>
          LET ach == achievements[last.v]
              user == users[last.u]
          IN /\ last.ok <=>
                  /\ ach.isActive
                  /\ \/ ach.type = "points"
                        /\ user.totalPoints >= ach.value
                     \/ ach.type = "events"
                        /\ Len(user.eventsParticipated) >= ach.value
             /\ ach.type \in {"streak", "custom"} => ~last.ok
             /\ ~ach.isActive => ~last.ok)
  /\ [][ IsStep("checkEligibility") =>
           (users' = users /\ achievements' = achievements) ]_vars

\* a user standing exactly on a points threshold was found eligible
C13_Witness ==
  /\ last.op = "checkEligibility"
  /\ last.ok
  /\ achievements[last.v].type = "points"
  /\ users[last.u].totalPoints = achievements[last.v].value

\* the participant count of ev does not exceed its maxParticipants, if set
WithinCapacity(ev) ==
  ev.maxParticipants # NoLimit => Len(ev.participants) <= ev.maxParticipants

\* C14: in every state reached by create event, admin update (maxParticipants
\* included), Join, Leave and administrative award, every event with
\* maxParticipants set has at most maxParticipants participants.
C14_CapacityInvariant ==
  \A e \in 1..Len(events) : WithinCapacity(events[e])

\* C15: under sequential Join, Leave and administrative award no user's
\* eventsParticipated holds the same eventId twice and no event's
\* participants holds the same userId twice.
C15_NoDuplicateParticipation ==
  /\ \A u \in 1..Len(users) :
        \A i, j \in 1..Len(users[u].eventsParticipated) :
           i # j => users[u].eventsParticipated[i].eventId
                       # users[u].eventsParticipated[j].eventId
  /\ \A e \in 1..Len(events) :
        \A i, j \in 1..Len(events[e].participants) :
           i # j => events[e].participants[i].userId
                       # events[e].participants[j].userId

\* an administrative award with a point value was refused because the user
\* already has a record on the event
C15_Witness ==
  /\ last.op = "award"
  /\ ~last.ok
  /\ last.v # 0
  /\ EventExists(last.e)
  /\ UserExists(last.u)
  /\ isParticipating(events[last.e], last.u)
  /\ \E i \in 1..Len(users[last.u].eventsParticipated) :
        users[last.u].eventsParticipated[i].eventId = last.e

\* C16: in every state reached by register, Join, Leave, administrative
\* award (with any point value the endpoint accepts) and check-achievements
\* requests, every user's totalPoints is an integer >= 0.
C16_TotalPointsNonNegative ==
  \A u \in 1..Len(users) :
     users[u].totalPoints \in Int /\ users[u].totalPoints >= 0

\* C17: whenever a write on an event (create, admin update, soft-delete,
\* Join, Leave, administrative award) completes while the event's date is at
\* or before the current time and its status before the write was upcoming,
\* the stored status after the write is completed.
C17_LazyCompletionOnWrite ==
  [][ /\ IsStep("createEvent") =>
           (events'[last'.e].date <= now
              => events'[last'.e].status = "completed")
      /\ ( /\ requests' = requests + 1
            /\ last'.op \in {"updateEvent", "deleteEvent", "join", "leave",
                              "award"}
            /\ last'.ok
            /\ EventExists(last'.e)
            /\ events[last'.e].status = "upcoming"
            /\ events[last'.e].date <= now )
         => events'[last'.e].status = "completed"
    ]_vars

C20_StudentNeverRunsAdminRoute ==
  [][ (requests' = requests + 1 /\ last'.op \in AdminRoutes) =>
        /\ ~last'.ok
        /\ last'.v = Forbidden
        /\ users' = users
        /\ events' = events
        /\ achievements' = achievements
    ]_vars

\* a student who holds a participation asked for an admin-gated route and
\* was answered 403
C20_Witness ==
  /\ last.op \in AdminRoutes
  /\ last.v = Forbidden
  /\ ~last.ok
  /\ \E e \in 1..Len(events) : events[e].participants # <<>>

\* C21: no value a client puts in a request body is stored as a user's level
\* or totalPoints: register creates the user with totalPoints 0 and level 1,
\* update-details and the admin user update leave level and totalPoints as
\* they were, whatever fields the body carries; level and totalPoints change
\* only in Join, Leave, administrative award and check-achievements, and the
\* level they store is the recomputed one.
C21_BodyNeverSetsLevelOrPoints ==
  [][ /\ IsStep("register") =>
           /\ users'[last'.u].totalPoints = 0
           /\ users'[last'.u].level = 1
      /\ \A u \in 1..Len(users) :
           /\ (IsStep("register") \/ IsStep("updateDetails")
                  \/ IsStep("updateUser")) =>
                 /\ users'[u].totalPoints = users[u].totalPoints
                 /\ users'[u].level = users[u].level
           /\ ( \/ users'[u].level # users[u].level
                \/ users'[u].totalPoints # users[u].totalPoints ) =>
                 /\ requests' = requests + 1
                 /\ last'.op \in {"join", "leave", "award", "check"}
                 /\ users'[u].level
                      = (users'[u].totalPoints \div LevelStep) + 1
    ]_vars

\* an admin user update whose body carried level or totalPoints was handled
\* for a user who holds points
C21_Witness ==
  /\ last.op = "updateUser"
  /\ last.v = 1
  /\ users[last.u].totalPoints \notin {0, 5000}
  /\ users[last.u].level # 99

\* C22: Join, Leave and administrative award save the event before the user
\* and have no compensation: when the event save succeeds and the user save
\* that follows fails, the request reports an error, the event keeps the
\* changed participants list, and the user's totalPoints, level and
\* eventsParticipated stay at their old values.
C22_NoRollbackOnUserSaveFailure ==
  [][ /\ ( /\ IsStep("joinUserSaveThrows")
            /\ EventExists(last'.e)
            /\ canParticipate(events[last'.e], last'.u) ) =>
           /\ ~last'.ok
           /\ events'[last'.e].participants
                = Append(events[last'.e].participants,
                         [userId |-> last'.u,
                          pointsEarned |-> events[last'.e].points])
           /\ users' = users
      /\ ( /\ IsStep("leaveUserSaveThrows")
            /\ EventExists(last'.e)
            /\ isParticipating(events[last'.e], last'.u) ) =>
           /\ ~last'.ok
           /\ Len(events'[last'.e].participants)
                = Len(events[last'.e].participants) - 1
           /\ ~isParticipating(events'[last'.e], last'.u)
           /\ users' = users
      /\ ( /\ IsStep("awardUserSaveThrows")
            /\ EventExists(last'.e)
            /\ UserExists(last'.u)
            /\ last'.v # 0
            /\ ~isParticipating(events[last'.e], last'.u) ) =>
           /\ ~last'.ok
           /\ events'[last'.e].participants
                = Append(events[last'.e].participants,
                         [userId |-> last'.u, pointsEarned |-> last'.v])
           /\ users' = users
    ]_vars

\* a Join lost its user save: the event lists the user, the user document
\* holds no record of the event
C22_Witness ==
  /\ last.op = "joinUserSaveThrows"
  /\ ~last.ok
  /\ isParticipating(events[last.e], last.u)
  /\ \A j \in 1..Len(users[last.u].eventsParticipated) :
        users[last.u].eventsParticipated[j].eventId # last.e

\* C23: two Joins of one user on two different events, interleaved at single
\* reads and writes, can both report success while totalPoints holds only
\* one of the two increments: when both loaded the user document before
\* either saved it, totalPoints ends below the sum of the pointsEarned of
\* the user's successful joins.
C23_LostUpdate ==
  ( /\ BothAnswered
    /\ inflight[1].ok /\ inflight[2].ok
    /\ inflight[1].e # inflight[2].e
    /\ inflight[1].user = inflight[2].user ) =>
     /\ Len(users[1].eventsParticipated) = 2
     /\ users[1].totalPoints < RecordedPoints(users[1])
     /\ users[1].totalPoints
          \in {inflight[1].user[1].totalPoints + inflight[1].event[1].points,
               inflight[2].user[1].totalPoints + inflight[2].event[1].points}

\* both Joins were answered with success and one increment is missing
C23_Witness ==
  /\ BothAnswered
  /\ inflight[1].ok /\ inflight[2].ok
  /\ inflight[1].e # inflight[2].e
  /\ users[1].totalPoints
       < events[inflight[1].e].points + events[inflight[2].e].points
  /\ users[1].totalPoints < RecordedPoints(users[1])

\* C24: under every interleaving of two concurrent Joins of one user on one
\* event at most one succeeds: the user is at most once among the event's
\* participants and totalPoints rises by event.points at most once.
C24_ConcurrentSameEventJoin ==
  \A e \in 1..Len(events) :
     ( /\ BothAnswered
       /\ inflight[1].e = e /\ inflight[2].e = e ) =>
        /\ ~(inflight[1].ok /\ inflight[2].ok)
        /\ Cardinality({i \in 1..Len(events[e].participants) :
                          events[e].participants[i].userId = 1}) <= 1
        /\ users[1].totalPoints <= events[e].points

\* C25: no read returns an entity whose isActive is false: the event,
\* achievement and user lists, the leaderboard, the upcoming, by-department,
\* by-category and rare queries and the fetches by id all leave soft-deleted
\* entities out.
C25_ReadsExcludeInactive ==
  \A k \in 1..Len(last.awarded) :
     /\ last.op \in EventReads => events[last.awarded[k]].isActive
     /\ last.op \in AchievementReads
           => achievements[last.awarded[k]].isActive
     /\ last.op \in UserReads => users[last.awarded[k]].isActive

\* the points recorded in a user's achievements, added up
AchievementPoints(user) ==
  SumSeq([j \in 1..Len(user.achievements) |-> user.achievements[j].points], 1)

\* C26: for a user registered through the API, after any sequence of
\* completed Join, Leave, administrative-award and check-achievements
\* requests, totalPoints equals the sum of pointsEarned over
\* eventsParticipated plus the sum of points over achievements.
C26_TotalIsSumOfRecords ==
  \A u \in 1..Len(users) :
     users[u].totalPoints
        = RecordedPoints(users[u]) + AchievementPoints(users[u])

\* an active achievement the user does not hold and qualifies for
Claimable(user, achs) ==
  {a \in 1..Len(achs) :
     achs[a].isActive /\ ~hasAchievement(user, a)
       /\ checkEligibility(achs[a], user)}

\* C27: a check-achievements call reaches a fixpoint: right after it there
\* is no active achievement the user does not hold and qualifies for, so a
\* second call right after it by the same user awards nothing.
C27_CheckReachesFixpoint ==
  /\ [](last.op = "check" => Claimable(users[last.u], achievements) = {})
  /\ [][ (IsStep("check") /\ last.op = "check" /\ last'.u = last.u)
           => last'.awarded = <<>> ]_vars

\* C27 (amended): a check-achievements call awards every active achievement
\* the user did not hold and qualified for on the stats the call started
\* with; an achievement that only the points awarded during the call make
\* reachable can be left for the next call.
C27_CheckAwardsAllEligibleAtStart ==
  [][ IsStep("check") =>
        \A a \in Claimable(users[last'.u], achievements) :
           /\ hasAchievement(users'[last'.u], a)
           /\ \E k \in 1..Len(last'.awarded) : last'.awarded[k] = a
    ]_vars

\* a call awarded an achievement whose points carried the user over the
\* threshold of an achievement the loop had already passed
C27_Witness ==
  /\ last.op = "check"
  /\ last.awarded # <<>>
  /\ \E a \in Claimable(users[last.u], achievements) :
        /\ achievements[a].type = "points"
        /\ \E k \in 1..Len(last.awarded) : a < last.awarded[k]

\* C28: after every successful Join the event's stored status is upcoming or
\* ongoing: a Join never adds a user to an event that the same request
\* leaves completed, in particular not to an event whose date had passed
\* while its stored status was still upcoming.
C28_JoinLeavesEventOpen ==
  [][ (IsStep("join") /\ last'.ok)
        => events'[last'.e].status \in {"upcoming", "ongoing"} ]_vars

\* C29: a Leave never revokes achievements: a successful Leave leaves the
\* user's achievements list as it was and subtracts only the pointsEarned
\* of the participation, so an achievement awarded for an events or points
\* threshold, and the points it added, stay even when the event count or
\* totalPoints afterwards lies below the threshold.
C29_LeaveKeepsAchievements ==
  [][ (IsStep("leave") /\ last'.ok) =>
        LET u == last'.u
            ev == events[last'.e]
            participation == ev.participants[participationIndex(ev, u)]
        IN /\ users'[u].achievements = users[u].achievements
           /\ users'[u].totalPoints
                = users[u].totalPoints - participation.pointsEarned
    ]_vars

\* after a Leave the user holds an achievement they no longer qualify for,
\* together with its points
C29_Witness ==
  /\ last.op = "leave"
  /\ last.ok
  /\ users[last.u].totalPoints
       = RecordedPoints(users[last.u]) + AchievementPoints(users[last.u])
  /\ \E k \in 1..Len(users[last.u].achievements) :
        LET a == users[last.u].achievements[k].achievementId
        IN /\ achievements[a].isActive
           /\ ~checkEligibility(achievements[a], users[last.u])
           /\ users[last.u].totalPoints >= achievements[a].points


\* C30: once a user is soft-deleted (isActive false), no operation changes
\* the user's totalPoints, level, eventsParticipated or achievements: Join,
\* Leave and check-achievements by that user and an administrative award to
\* that user are all rejected.
C30_SoftDeletedUserIsFrozen ==
  [][ \A u \in 1..Len(users) :
        ~users[u].isActive =>
          /\ users'[u].totalPoints = users[u].totalPoints
          /\ users'[u].level = users[u].level
          /\ users'[u].eventsParticipated = users[u].eventsParticipated
          /\ users'[u].achievements = users[u].achievements
          /\ ( /\ requests' = requests + 1
               /\ last'.op \in {"join", "leave", "check", "award"}
               /\ last'.u = u ) => ~last'.ok
    ]_vars

====
